---- MODULE Spec2Model ----
(***************************************************************************)
(* Co-authorship graph engine of academic_analysis                         *)
(* (src/src/citation_network.py, class CitationNetworkAnalyzer), with the  *)
(* author table it is constructed with (src/src/data_processor.py).        *)
(*                                                                         *)
(* A name is a sequence of characters; a character is a one-letter string  *)
(* ("TAB" stands for the tab character).  A publication is a record        *)
(* [title, authors]; titles are unique (clean_data drops duplicate titles) *)
(* and are modelled by the row number.                                     *)
(*                                                                         *)
(* Author impact analysis (src/src/ml_analyzer.py, class MLAnalyzer).  A   *)
(* data frame is a record [columns, rows]: the column names in order and   *)
(* the rows in order, a row being a function from column names to values;  *)
(* a missing cell (NaN) is a column outside the row's domain.              *)
(*                                                                         *)
(* The h-index of the author statistics (src/src/data_processor.py,        *)
(* DataProcessor._calculate_h_index_approx) and the HTTP request loop of   *)
(* the collector (src/src/data_collector.py,                               *)
(* ScholarDataCollector._api_request).                                     *)
(***************************************************************************)
EXTENDS Integers, Sequences, FiniteSets, TLC

VARIABLES publications_df, authors_df, coauthorship_graph, build_calls,
          last_call, result,
          author_stats_df, network_metrics_df, feature_df, LIGHTGBM_AVAILABLE,
          cluster_calls, ml_call, ml_result,
          citations, h_index,
          max_retries, attempt, responses, wait_time, api_request

\* the state of a CitationNetworkAnalyzer and the last call made on it
network_vars == <<publications_df, authors_df, coauthorship_graph, build_calls,
                  last_call, result>>

\* the state of an MLAnalyzer, the module flag it reads, and the last call
ml_vars == <<author_stats_df, network_metrics_df, feature_df, LIGHTGBM_AVAILABLE,
             cluster_calls, ml_call, ml_result>>

\* the argument and the return value of _calculate_h_index_approx
processor_vars == <<citations, h_index>>

\* one _api_request call: its max_retries, the loop variable, the kinds of
\* the responses received so far, the last wait, and how the call stands
collector_vars == <<max_retries, attempt, responses, wait_time, api_request>>

other_vars == <<processor_vars, collector_vars>>

vars == <<network_vars, ml_vars, other_vars>>

(***************************************************************************)
(* Bounds                                                                  *)
(***************************************************************************)
MaxPubs == 2
MaxAuthors == 3
MaxAuthorRows == 4
MaxNameLen == 5
MaxConsecutiveBuilds == 2
MaxTableRows == 3
MaxFused == 3
MaxClusterCalls == 2
MaxPapers == 4
MaxCitations == 4
MaxRetries == 3
MaxHeaderLen == 3

(***************************************************************************)
(* Characters and the two name normalizations                              *)
(***************************************************************************)
Whitespace == {" ", "TAB"}

NameChars == {"a", "A", " ", "TAB"}

ToLower(c) == IF c = "A" THEN "a"
              ELSE IF c = "B" THEN "b"
              ELSE IF c = "C" THEN "c"
              ELSE c

Lower(s) == [i \in 1..Len(s) |-> ToLower(s[i])]

RECURSIVE LStrip(_)
LStrip(s) == IF s # <<>> /\ Head(s) \in Whitespace THEN LStrip(Tail(s)) ELSE s

RECURSIVE RStrip(_)
RStrip(s) == IF s # <<>> /\ s[Len(s)] \in Whitespace
             THEN RStrip(SubSeq(s, 1, Len(s) - 1))
             ELSE s

Strip(s) == RStrip(LStrip(s))

\* str.replace('  ', ' '): one left-to-right pass over non-overlapping
\* occurrences of two spaces
RECURSIVE ReplaceDoubleSpace(_)
ReplaceDoubleSpace(s) ==
    IF Len(s) < 2 THEN s
    ELSE IF s[1] = " " /\ s[2] = " "
         THEN <<" ">> \o ReplaceDoubleSpace(SubSeq(s, 3, Len(s)))
         ELSE <<s[1]>> \o ReplaceDoubleSpace(Tail(s))

\* citation_network.py: author.lower().strip(), then .replace('  ', ' ')
NormalizeNode(author) == ReplaceDoubleSpace(Strip(Lower(author)))

\* re.sub(r'\s+', ' ', s): every maximal run of whitespace becomes one space
RECURSIVE CollapseWhitespace(_)
CollapseWhitespace(s) ==
    IF s = <<>> THEN s
    ELSE IF s[1] \in Whitespace
         THEN <<" ">> \o CollapseWhitespace(LStrip(s))
         ELSE <<s[1]>> \o CollapseWhitespace(Tail(s))

\* data_processor.py: .str.lower().str.strip(), then .str.replace(r'\s+', ' ')
normalize_author_name(author) == CollapseWhitespace(Strip(Lower(author)))

(***************************************************************************)
(* Generic sequence helpers                                                *)
(***************************************************************************)
Range(s) == {s[i] : i \in 1..Len(s)}

Min(a, b) == IF a < b THEN a ELSE b

\* the sequence f with every element evaluated
Evaluated(f) == SubSeq(f, 1, Len(f))

RECURSIVE SeqsUpTo(_, _)
SeqsUpTo(S, n) ==
    IF n = 0 THEN {<<>>}
    ELSE LET shorter == SeqsUpTo(S, n - 1)
         IN  shorter \cup {Append(s, x) : s \in {t \in shorter : Len(t) = n - 1}, x \in S}

(***************************************************************************)
(* The graph: nodes in insertion order, edges keyed by the unordered pair  *)
(* of their end points (a self-loop is keyed by a one-element set)         *)
(***************************************************************************)
EmptyGraph == [nodes |-> <<>>, edges |-> <<>>]

has_edge(g, a, b) == {a, b} \in DOMAIN g.edges

AddNode(nodes, a) == IF a \in Range(nodes) THEN nodes ELSE Append(nodes, a)

add_edge(g, a, b, title) ==
    [nodes |-> AddNode(AddNode(g.nodes, a), b),
     edges |-> ({a, b} :> [weight |-> 1, publications |-> <<title>>]) @@ g.edges]

IncrementEdge(g, a, b, title) ==
    [g EXCEPT !.edges[{a, b}] =
        [weight |-> @.weight + 1, publications |-> Append(@.publications, title)]]

\* lines 71-84: one edge update
UpdateEdge(g, a, b, title) ==
    IF has_edge(g, a, b) THEN IncrementEdge(g, a, b, title)
    ELSE add_edge(g, a, b, title)

\* lines 57-62
NormalizedAuthors(authors) == [i \in 1..Len(authors) |-> NormalizeNode(authors[i])]

\* lines 66-67: the index pairs i < j in loop order
RECURSIVE IndexPairs(_, _, _)
IndexPairs(i, j, n) ==
    IF i > n THEN <<>>
    ELSE IF j > n THEN IndexPairs(i + 1, i + 2, n)
    ELSE <<<<i, j>>>> \o IndexPairs(i, j + 1, n)

\* lines 66-69: the author pairs updated for one publication, in order
EdgeUpdates(authors) ==
    IF Len(authors) < 2 THEN <<>>
    ELSE LET norm == NormalizedAuthors(authors)
             ip == IndexPairs(1, 2, Len(norm))
         IN  [k \in 1..Len(ip) |-> <<norm[ip[k][1]], norm[ip[k][2]]>>]

RECURSIVE ApplyUpdates(_, _, _)
ApplyUpdates(g, ups, title) ==
    IF ups = <<>> THEN g
    ELSE ApplyUpdates(UpdateEdge(g, Head(ups)[1], Head(ups)[2], title), Tail(ups), title)

\* lines 49-84: the body of the loop for one row
ProcessPublication(g, pub) == ApplyUpdates(g, EdgeUpdates(pub.authors), pub.title)

RECURSIVE ProcessPublications(_, _)
ProcessPublications(g, pubs) ==
    IF pubs = <<>> THEN g
    ELSE ProcessPublications(ProcessPublication(g, Head(pubs)), Tail(pubs))

\* a rebuild that keeps the old graph instead of starting from nx.Graph()
ResetGraph_keep(g) == g

\* line 46
ResetGraph(g) == EmptyGraph

\* lines 36-86
build_coauthorship_network(g, pubs) == ProcessPublications(ResetGraph(g), pubs)

(***************************************************************************)
(* The author table handed to the constructor (data_processor.py)          *)
(***************************************************************************)
NoTitle == 0

\* extract_authors, inner loop: one row per author of one publication
AuthorRows(pub) ==
    [i \in 1..Len(pub.authors) |->
        [author_name |-> pub.authors[i], publication_title |-> pub.title]]

\* extract_authors: one row per (publication, author) relation
RECURSIVE extract_authors(_)
extract_authors(pubs) ==
    IF pubs = <<>> THEN <<>>
    ELSE AuthorRows(Head(pubs)) \o extract_authors(Tail(pubs))

\* normalize_author_names: adds the author_normalized column
normalize_author_names(rows) ==
    [i \in 1..Len(rows) |->
        [author_name |-> rows[i].author_name,
         author_normalized |-> normalize_author_name(rows[i].author_name),
         publication_title |-> rows[i].publication_title]]

\* the three shapes of authors_df that calculate_network_metrics tells apart
AuthorColumnChoices == {"normalized", "name_only", "no_author_column"}

AuthorsTable(pubs, shape) ==
    IF shape = "normalized"
    THEN [columns |-> {"author_name", "author_normalized", "publication_title"},
          rows |-> normalize_author_names(extract_authors(pubs))]
    ELSE IF shape = "name_only"
    THEN [columns |-> {"author_name", "publication_title"},
          rows |-> extract_authors(pubs)]
    ELSE [columns |-> {"publication_title"}, rows |-> <<>>]

(***************************************************************************)
(* calculate_network_metrics                                               *)
(***************************************************************************)
\* Graph.degree: a self-loop counts twice
Degree(g, n) ==
    Cardinality({e \in DOMAIN g.edges : n \in e})
    + (IF {n} \in DOMAIN g.edges THEN 1 ELSE 0)

\* lines 119-132: one metrics row per node, in node order (of the numeric
\* columns only the integer-valued degree is represented)
MetricsRows(g) ==
    [i \in 1..Len(g.nodes) |->
        [author_name |-> g.nodes[i], degree |-> Degree(g, g.nodes[i])]]

\* DataFrame.drop_duplicates(subset=['author_name'], keep='first')
RECURSIVE DropDuplicates(_, _)
DropDuplicates(rows, seen) ==
    IF rows = <<>> THEN <<>>
    ELSE IF Head(rows).author_name \in seen
         THEN DropDuplicates(Tail(rows), seen)
         ELSE <<Head(rows)>> \o DropDuplicates(Tail(rows), seen \cup {Head(rows).author_name})

drop_duplicates(rows) == DropDuplicates(rows, {})

\* lines 142-149: drop author_name, rename author_normalized to author_name
RenameNormalized(rows) ==
    [i \in 1..Len(rows) |->
        [author_name |-> rows[i].author_normalized,
         publication_title |-> rows[i].publication_title]]

JoinRow(l, r) ==
    [author_name |-> l.author_name, degree |-> l.degree,
     publication_title |-> r.publication_title]

JoinNaN(l) ==
    [author_name |-> l.author_name, degree |-> l.degree,
     publication_title |-> NoTitle]

RECURSIVE JoinAll(_, _)
JoinAll(l, matches) ==
    IF matches = <<>> THEN <<>>
    ELSE <<JoinRow(l, Head(matches))>> \o JoinAll(l, Tail(matches))

RECURSIVE LeftRows(_, _)
LeftRows(left, right) ==
    IF left = <<>> THEN <<>>
    ELSE LET l == Head(left)
             Match(r) == r.author_name = l.author_name
             matches == SelectSeq(right, Match)
         IN  (IF matches = <<>> THEN <<JoinNaN(l)>> ELSE JoinAll(l, matches))
             \o LeftRows(Tail(left), right)

\* the rows of the right table whose key no left row has
RightOnlyRows(left, right) ==
    LET keys == {left[i].author_name : i \in 1..Len(left)}
        Unmatched(r) == r.author_name \notin keys
        rs == SelectSeq(right, Unmatched)
    IN  [i \in 1..Len(rs) |->
            [author_name |-> rs[i].author_name, degree |-> 0,
             publication_title |-> rs[i].publication_title]]

\* a merge that also keeps the author rows no node matches (how='outer')
merge_outer(left, right) == LeftRows(left, right) \o RightOnlyRows(left, right)

\* pd.merge(metrics_df, authors_unique, on='author_name', how='left')
merge(left, right) == LeftRows(left, right)

\* lines 132-183
MergeWithAuthors(metrics, adf) ==
    LET merged ==
          IF "author_normalized" \in adf.columns
          THEN merge(metrics, drop_duplicates(RenameNormalized(adf.rows)))
          ELSE IF "author_name" \in adf.columns
          THEN merge(metrics, drop_duplicates(adf.rows))
          ELSE metrics
    IN  drop_duplicates(merged)

Ok(v) == [status |-> "ok", value |-> v, exc |-> "none", strategy |-> "none"]

Raised(e) == [status |-> "raised", value |-> <<>>, exc |-> e, strategy |-> "none"]

\* lines 103-104 and 199-200 without the build
EnsureBuilt_skip(g, pubs) == g

\* lines 103-104 and 199-200: build first when the graph has no node
EnsureBuilt(g, pubs) ==
    IF Len(g.nodes) = 0 THEN build_coauthorship_network(g, pubs) ELSE g

\* lines 103-183 on the graph g; eig_converges is whether the power iteration
\* of nx.eigenvector_centrality reaches its tolerance within max_iter=1000.
\* nx.eigenvector_centrality raises NetworkXPointlessConcept on the null graph
\* and PowerIterationFailedConvergence when the cap is hit; neither is caught.
calculate_network_metrics(g, adf, eig_converges) ==
    IF Len(g.nodes) = 0 THEN Raised("NetworkXPointlessConcept")
    ELSE IF ~eig_converges THEN Raised("PowerIterationFailedConvergence")
    ELSE Ok(MergeWithAuthors(MetricsRows(g), adf))

(***************************************************************************)
(* find_research_communities                                               *)
(***************************************************************************)
NodeSet(g) == Range(g.nodes)

\* the edges that join two distinct nodes
ProperEdges(g) == {e \in DOMAIN g.edges : Cardinality(e) = 2}

Neighbours(E, n) == {m \in UNION E : {n, m} \in E /\ m # n}

RECURSIVE Reach(_, _)
Reach(E, S) ==
    LET next == S \cup UNION {Neighbours(E, n) : n \in S}
    IN  IF next = S THEN S ELSE Reach(E, next)

\* nx.connected_components
ConnectedComponents(N, E) == {Reach(E, {n}) : n \in N}

\* the simple paths from s with k nodes, as node sequences
RECURSIVE PathsOfLen(_, _, _)
PathsOfLen(E, s, k) ==
    IF k = 1 THEN {<<s>>}
    ELSE UNION {{Append(p, m) : m \in Neighbours(E, p[Len(p)]) \ Range(p)}
                : p \in PathsOfLen(E, s, k - 1)}

RECURSIVE ShortestFrom(_, _, _, _, _)
ShortestFrom(N, E, s, t, k) ==
    IF k > Cardinality(N) THEN {}
    ELSE LET ps == {p \in PathsOfLen(E, s, k) : p[k] = t}
         IN  IF ps # {} THEN ps ELSE ShortestFrom(N, E, s, t, k + 1)

\* the shortest paths from s to t
ShortestPaths(N, E, s, t) == ShortestFrom(N, E, s, t, 2)

OnPath(p, e) == \E i \in 1..(Len(p) - 1) : {p[i], p[i + 1]} = e

\* the sum (product) of the second components of a set of pairs
RECURSIVE SumOver(_)
SumOver(S) ==
    IF S = {} THEN 0
    ELSE LET x == CHOOSE y \in S : TRUE
         IN  x[2] + SumOver(S \ {x})

RECURSIVE ProductOver(_)
ProductOver(S) ==
    IF S = {} THEN 1
    ELSE LET x == CHOOSE y \in S : TRUE
         IN  x[2] * ProductOver(S \ {x})

\* nx.edge_betweenness_centrality (unweighted), times a factor common to all
\* edges: for every edge e the pair <<e, sum over the linked node pairs of
\* the share of their shortest paths that use e>>
EdgeBetweenness(N, E) ==
    LET pairs == {pr \in SUBSET N : Cardinality(pr) = 2}
        pathsets == {LET s == CHOOSE x \in pr : TRUE
                         t == CHOOSE x \in pr : x # s
                     IN  ShortestPaths(N, E, s, t) : pr \in pairs} \ {{}}
        scale == ProductOver({<<ps, Cardinality(ps)>> : ps \in pathsets})
    IN  {<<e, SumOver({<<ps, Cardinality({p \in ps : OnPath(p, e)})
                               * (scale \div Cardinality(ps))>> : ps \in pathsets})>>
         : e \in E}

\* most_valuable_edge: an edge of maximal betweenness (which of several is
\* taken depends on the iteration order of the edge dictionary)
MostValuableEdges(N, E) ==
    LET b == EdgeBetweenness(N, E)
    IN  {x[1] : x \in {y \in b : \A z \in b : z[2] <= y[2]}}

\* _without_most_central_edges: remove edges until a component splits
RECURSIVE WithoutMostCentralEdges(_, _, _)
WithoutMostCentralEdges(N, E, original) ==
    UNION {LET rest == E \ {e}
               comps == ConnectedComponents(N, rest)
           IN  IF Cardinality(comps) > original THEN {comps}
               ELSE WithoutMostCentralEdges(N, rest, original)
           : e \in MostValuableEdges(N, E)}

\* the components in the order nx.connected_components yields them: by first
\* node in node order
RECURSIVE ComponentsInOrder(_, _, _)
ComponentsInOrder(nodes, comps, done) ==
    IF nodes = <<>> THEN <<>>
    ELSE IF Head(nodes) \in done
         THEN ComponentsInOrder(Tail(nodes), comps, done)
         ELSE LET c == CHOOSE x \in comps : Head(nodes) \in x
              IN  <<c>> \o ComponentsInOrder(Tail(nodes), comps, done \cup c)

\* a numbering that covers the first community only
NumberCommunities_first(top) ==
    [n \in (IF top = <<>> THEN {} ELSE top[1]) |-> 0]

\* lines 236-241: {node: index of its community}
NumberCommunities(top) ==
    [n \in UNION Range(top) |-> (CHOOSE i \in 1..Len(top) : n \in top[i]) - 1]

Yielded(top) == [exc |-> "none", top |-> top]

\* next(nx.community.girvan_newman(G)): the possible first partitions, or
\* StopIteration when the generator yields nothing (a graph whose only
\* edges are self-loops: they are removed and the loop body never runs)
GirvanNewmanFirst(g) ==
    IF DOMAIN g.edges = {} THEN {Yielded(ConnectedComponents(NodeSet(g), {}))}
    ELSE IF ProperEdges(g) = {} THEN {[exc |-> "StopIteration", top |-> {}]}
    ELSE {Yielded(top) :
            top \in WithoutMostCentralEdges(NodeSet(g), ProperEdges(g),
                        Cardinality(ConnectedComponents(NodeSet(g), ProperEdges(g))))}

\* lines 222-241: the possible return values, or the exception raised
girvan_newman_communities(g) ==
    {[exc |-> y.exc,
      communities |-> IF y.exc = "none"
                      THEN NumberCommunities(ComponentsInOrder(g.nodes, y.top, {}))
                      ELSE <<>>]
     : y \in GirvanNewmanFirst(g)}

\* community_louvain.best_partition: some total node -> community id mapping
\* with ids 0..k-1 (the algorithm is stochastic and unseeded)
best_partition(g) ==
    {f \in [NodeSet(g) -> 0..(Len(g.nodes) - 1)] :
        LET ids == {f[n] : n \in NodeSet(g)}
        IN  ids = 0..(Cardinality(ids) - 1)}

Algorithms == {"louvain", "girvan_newman", "other"}

\* a selection that lets the ImportError of the louvain branch escape
SelectStrategy_uncaught(algorithm, importable) ==
    IF algorithm = "louvain"
    THEN IF importable THEN "louvain" ELSE "ImportError"
    ELSE "girvan_newman"

\* lines 203-213: which algorithm runs
SelectStrategy(algorithm, importable) ==
    IF algorithm = "louvain"
    THEN IF importable THEN "louvain" ELSE "girvan_newman"
    ELSE "girvan_newman"

\* lines 216-220: {community id: [nodes]}, nodes in dictionary order
CommunityDict(nodes, communities) ==
    LET ids == {communities[n] : n \in DOMAIN communities}
    IN  [c \in ids |->
            LET InC(n) == n \in DOMAIN communities /\ communities[n] = c
            IN  SelectSeq(nodes, InC)]

\* lines 202-220 on the graph g: the possible results, given what
\* best_partition can return on g and how _girvan_newman_communities can end
find_research_communities(g, algorithm, importable, partitions, fallback) ==
    LET strategy == SelectStrategy(algorithm, importable)
        outcomes == IF strategy = "louvain"
                    THEN {[exc |-> "none", communities |-> f] : f \in partitions}
                    ELSE IF strategy = "girvan_newman" THEN fallback
                    ELSE {[exc |-> strategy, communities |-> <<>>]}
    IN  {IF o.exc # "none"
         THEN [Raised(o.exc) EXCEPT !.strategy = strategy]
         ELSE [Ok(CommunityDict(g.nodes, o.communities)) EXCEPT !.strategy = strategy]
         : o \in outcomes}

(***************************************************************************)
(* Data frames of the impact analysis                                      *)
(***************************************************************************)
\* feature_df = None
NoFrame == [is_none |-> TRUE, columns |-> <<>>, rows |-> <<>>]

Frame(columns, rows) == [is_none |-> FALSE, columns |-> columns, rows |-> rows]

\* df[columns]: the cells of the row in the given columns
Project(row, columns) == [c \in Range(columns) \cap DOMAIN row |-> row[c]]

\* df[columns].fillna(0) on one row
fillna(row, columns) ==
    [c \in DOMAIN row \cup Range(columns) |-> IF c \in DOMAIN row THEN row[c] ELSE 0]

\* the rows of an inner merge on author_name, in the order of the left keys
RECURSIVE InnerRows(_, _)
InnerRows(lrows, rrows) ==
    IF lrows = <<>> THEN <<>>
    ELSE LET l == Head(lrows)
             m == SelectSeq(rrows, LAMBDA r : r.author_name = l.author_name)
         IN  Evaluated([i \in 1..Len(m) |-> l @@ m[i]]) \o InnerRows(Tail(lrows), rrows)

\* the rows of a left merge on author_name: unmatched left rows are kept,
\* their right-hand cells NaN
RECURSIVE LeftJoinRows(_, _)
LeftJoinRows(lrows, rrows) ==
    IF lrows = <<>> THEN <<>>
    ELSE LET l == Head(lrows)
             m == SelectSeq(rrows, LAMBDA r : r.author_name = l.author_name)
         IN  (IF m = <<>> THEN <<l>> ELSE [i \in 1..Len(m) |-> l @@ m[i]])
             \o LeftJoinRows(Tail(lrows), rrows)

MergedColumns(left, right) ==
    left.columns \o SelectSeq(right.columns, LAMBDA c : c # "author_name")

merge_features_left(left, right) ==
    Frame(MergedColumns(left, right), LeftJoinRows(left.rows, right.rows))

\* pd.merge(left, right, on='author_name', how='inner'); the two frames share
\* no column but the key, so no column is renamed with a suffix
merge_features(left, right) ==
    Frame(MergedColumns(left, right), InnerRows(left.rows, right.rows))

(***************************************************************************)
(* create_features                                                         *)
(***************************************************************************)
feature_columns ==
    <<"publication_count", "total_citations", "avg_citations_per_paper",
      "h_index_approx", "degree", "degree_centrality", "betweenness_centrality",
      "closeness_centrality", "eigenvector_centrality", "pagerank">>

\* line 89: the feature columns the merged frame has, in feature_columns order
available_features(merged) ==
    SelectSeq(feature_columns, LAMBDA col : col \in Range(merged.columns))

\* lines 62-99
create_features(stats, metrics) ==
    LET author_stats_unique == Frame(stats.columns, drop_duplicates(stats.rows))
        network_metrics_unique == Frame(metrics.columns, drop_duplicates(metrics.rows))
        merged == merge_features(author_stats_unique, network_metrics_unique)
        available == available_features(merged)
        selected == <<"author_name">> \o available
        filled == Evaluated([i \in 1..Len(merged.rows) |->
                                fillna(Project(merged.rows[i], selected), available)])
    IN  Frame(selected, drop_duplicates(filled))

(***************************************************************************)
(* calculate_impact_score                                                  *)
(*                                                                         *)
(* Floating-point numbers are modelled in fixed point: a standardized      *)
(* value z is the integer z * Unit, a weight w the integer w * 100, and an *)
(* impact score s the integer s * 100; divisions truncate.                 *)
(***************************************************************************)
Unit == 100

RECURSIVE SumSeq(_)
SumSeq(xs) == IF xs = <<>> THEN 0 ELSE Head(xs) + SumSeq(Tail(xs))

MaxOf(xs) == CHOOSE x \in Range(xs) : \A y \in Range(xs) : y <= x

MinOf(xs) == CHOOSE x \in Range(xs) : \A y \in Range(xs) : x <= y

\* the largest r in lo..hi with r * r <= v
RECURSIVE SqrtBetween(_, _, _)
SqrtBetween(v, lo, hi) ==
    IF lo = hi THEN lo
    ELSE LET mid == (lo + hi + 1) \div 2
         IN  IF mid * mid <= v THEN SqrtBetween(v, mid, hi)
             ELSE SqrtBetween(v, lo, mid - 1)

Sqrt(v) == SqrtBetween(v, 0, Min(v, 40000))

\* StandardScaler().fit_transform on one column xs of n >= 1 numbers:
\* (x - mean) / std with the population std, a zero std replaced by 1.
\* With S = sum(xs) and D = n * sum(x^2) - S^2 this is (n*x - S) / sqrt(D).
StandardizeColumn(xs) ==
    LET n == Len(xs)
        S == SumSeq(xs)
        D == n * SumSeq([i \in 1..n |-> xs[i] * xs[i]]) - S * S
    IN  Evaluated([i \in 1..n |->
            LET d == n * xs[i] - S
            IN  IF D = 0 THEN 0
                ELSE IF d >= 0 THEN Sqrt((d * d * Unit * Unit) \div D)
                ELSE 0 - Sqrt((d * d * Unit * Unit) \div D)])

\* lines 133-142, in hundredths
weights_with_degree ==
    [total_citations |-> 25, h_index_approx |-> 20, publication_count |-> 10,
     pagerank |-> 15, betweenness_centrality |-> 10, eigenvector_centrality |-> 10,
     degree_centrality |-> 5, closeness_centrality |-> 5, degree |-> 5]

weights ==
    [total_citations |-> 25, h_index_approx |-> 20, publication_count |-> 10,
     pagerank |-> 15, betweenness_centrality |-> 10, eigenvector_centrality |-> 10,
     degree_centrality |-> 5, closeness_centrality |-> 5]

\* df[col].values
Column(df, col) == Evaluated([i \in 1..Len(df.rows) |-> df.rows[i][col]])

\* lines 144-149: the weighted sum of the standardized weighted columns
RECURSIVE WeightedSum(_, _, _)
WeightedSum(df, cols, acc) ==
    IF cols = <<>> THEN acc
    ELSE LET col == Head(cols)
         IN  IF col \in DOMAIN weights
             THEN LET z == StandardizeColumn(Column(df, col))
                  IN  WeightedSum(df, Tail(cols),
                        Evaluated([i \in 1..Len(acc) |-> acc[i] + z[i] * weights[col]]))
             ELSE WeightedSum(df, Tail(cols), acc)

\* lines 144-149
RawScores(df, feature_cols) ==
    WeightedSum(df, feature_cols, [i \in 1..Len(df.rows) |-> 0])

\* line 153 without the division by the range
ScaleToRange_unscaled(raw) ==
    [i \in 1..Len(raw) |-> (raw[i] - MinOf(raw)) * 100]

\* line 153: (score - min) / (max - min) * 100, in hundredths
ScaleToRange(raw) ==
    LET lo == MinOf(raw)
        hi == MaxOf(raw)
    IN  Evaluated([i \in 1..Len(raw) |-> ((raw[i] - lo) * 100 * 100) \div (hi - lo)])

\* lines 152-155 with equal scores all mapped to the top of the range
MinMaxScale_top(raw) ==
    IF MaxOf(raw) > MinOf(raw) THEN ScaleToRange(raw)
    ELSE [i \in 1..Len(raw) |-> 100 * 100]

\* lines 152-155: min-max normalization to 0..100, zeros when all are equal
MinMaxScale(raw) ==
    IF MaxOf(raw) > MinOf(raw) THEN ScaleToRange(raw)
    ELSE [i \in 1..Len(raw) |-> 0]

\* df[col] = values
SetColumn(df, col, values) ==
    Frame(IF col \in Range(df.columns) THEN df.columns ELSE Append(df.columns, col),
          Evaluated([i \in 1..Len(df.rows) |->
                        [c \in DOMAIN df.rows[i] \cup {col} |->
                            IF c = col THEN values[i] ELSE df.rows[i][c]]]))

\* insertion of row r into rows sorted by impact_score, descending, after
\* the rows of equal score
RECURSIVE InsertByScore(_, _)
InsertByScore(rows, r) ==
    IF rows = <<>> THEN <<r>>
    ELSE IF Head(rows).impact_score >= r.impact_score
         THEN <<Head(rows)>> \o InsertByScore(Tail(rows), r)
         ELSE <<r>> \o rows

\* df.sort_values('impact_score', ascending=False)
RECURSIVE SortedRows(_)
SortedRows(rows) ==
    IF rows = <<>> THEN <<>>
    ELSE InsertByScore(SortedRows(SubSeq(rows, 1, Len(rows) - 1)), rows[Len(rows)])

sort_by_impact(df) == Frame(df.columns, SortedRows(df.rows))

\* line 122, 187, 336: create the features on first use
EnsureFeatures(df, stats, metrics) ==
    IF df.is_none THEN create_features(stats, metrics) ELSE df

\* lines 125-126
ImpactFeatureCols(df) == SelectSeq(df.columns, LAMBDA col : col # "author_name")

\* lines 125-159, storing the sorted frame it returns
calculate_impact_score_sorted(df) ==
    IF Len(df.rows) = 0 THEN [frame |-> df, result |-> Raised("ValueError")]
    ELSE LET raw == RawScores(df, ImpactFeatureCols(df))
             scored == SetColumn(df, "impact_score", MinMaxScale(raw))
         IN  [frame |-> sort_by_impact(scored), result |-> Ok(sort_by_impact(scored))]

\* lines 125-159 on the feature frame df: [frame, result]; the scaler rejects
\* a frame without rows with a ValueError, which is not caught
calculate_impact_score(df) ==
    IF Len(df.rows) = 0 THEN [frame |-> df, result |-> Raised("ValueError")]
    ELSE LET raw == RawScores(df, ImpactFeatureCols(df))
             scored == SetColumn(df, "impact_score", MinMaxScale(raw))
         IN  [frame |-> scored, result |-> Ok(sort_by_impact(scored))]

(***************************************************************************)
(* cluster_authors                                                         *)
(*                                                                         *)
(* KMeans (random_state=42), DBSCAN and PCA are deterministic functions of *)
(* the matrix they are given.  Their outputs are modelled symbolically: a  *)
(* cell they produce is a record of the function, its parameters, its      *)
(* input matrix and the row.  The input matrix is identified by its        *)
(* columns and by the cells of its first row that an earlier call of       *)
(* cluster_authors produced; its other cells are those create_features     *)
(* makes from the two input frames, which never change.                    *)
(***************************************************************************)
DerivedColumns == <<"cluster", "pca_1", "pca_2">>

\* lines 339-340, and likewise 195-196
ModelFeatureCols(df) ==
    SelectSeq(df.columns,
              LAMBDA col : col \notin {"author_name", "total_citations", "impact_score"})

\* df[feature_cols].fillna(0).values
Matrix(df, feature_cols) ==
    [columns |-> feature_cols, rows |-> Len(df.rows),
     derived |-> IF Len(df.rows) = 0 THEN <<>>
                 ELSE Project(Project(df.rows[1], feature_cols), DerivedColumns)]

\* lines 346-349 without the adjustment to the sample count
EffectiveClusters_unclamped(n_clusters, n_samples) == n_clusters

\* lines 346-349
EffectiveClusters(n_clusters, n_samples) ==
    IF n_clusters > n_samples THEN (IF n_samples > 1 THEN n_samples ELSE 1)
    ELSE n_clusters

\* lines 352-360: the labels of fit_predict, one per row; an unrecognized
\* method is clustered with KMeans
Labels(method, n_clusters, X) ==
    [i \in 1..X.rows |->
        IF method = "dbscan"
        THEN [fn |-> "DBSCAN", n_clusters |-> 0, of |-> X, row |-> i, component |-> 0]
        ELSE [fn |-> "KMeans", n_clusters |-> n_clusters, of |-> X, row |-> i,
              component |-> 0]]

\* PCA(n_components=2).fit_transform(X_scaled)[:, component - 1]
PcaColumn(X, component) ==
    [i \in 1..X.rows |->
        [fn |-> "PCA", n_clusters |-> 0, of |-> X, row |-> i, component |-> component]]

\* X_scaled[:, component - 1], or 0 when there is no such column
ScaledColumn(X, feature_cols, component) ==
    [i \in 1..X.rows |->
        IF Len(feature_cols) >= component
        THEN [fn |-> "StandardScaler", n_clusters |-> 0, of |-> X, row |-> i,
              component |-> component]
        ELSE [fn |-> "zero", n_clusters |-> 0, of |-> Matrix(NoFrame, <<>>), row |-> i,
              component |-> component]]

\* lines 339-376 on the feature frame df: [frame, result, feature_cols,
\* diagnostic].  The scaler rejects a frame without rows, and PCA rejects
\* n_components=2 for a single row, with a ValueError; neither is caught, and
\* the cluster column is written before PCA runs.
cluster_authors(df, n_clusters, method) ==
    LET feature_cols == ModelFeatureCols(df)
        X == Matrix(df, feature_cols)
        n_samples == Len(df.rows)
        k == EffectiveClusters(n_clusters, n_samples)
        clustered == SetColumn(df, "cluster", Labels(method, k, X))
        base == [frame |-> df, result |-> Raised("ValueError"),
                 feature_cols |-> feature_cols, diagnostic |-> FALSE]
    IN  IF n_samples = 0 THEN base
        ELSE IF Len(feature_cols) > 2
        THEN IF n_samples < 2
             THEN [base EXCEPT !.frame = clustered, !.diagnostic = n_clusters > n_samples]
             ELSE LET projected ==
                          SetColumn(SetColumn(clustered, "pca_1", PcaColumn(X, 1)),
                                    "pca_2", PcaColumn(X, 2))
                  IN  [frame |-> projected, result |-> Ok(projected),
                       feature_cols |-> feature_cols,
                       diagnostic |-> n_clusters > n_samples]
        ELSE LET projected ==
                     SetColumn(SetColumn(clustered, "pca_1",
                                         ScaledColumn(X, feature_cols, 1)),
                               "pca_2", ScaledColumn(X, feature_cols, 2))
             IN  [frame |-> projected, result |-> Ok(projected),
                  feature_cols |-> feature_cols,
                  diagnostic |-> n_clusters > n_samples]

(***************************************************************************)
(* predict_citations                                                       *)
(*                                                                         *)
(* What fitting and scoring a regressor gives is the library's business:   *)
(* a model either raises or yields an R^2 score.  A score is a record      *)
(* [nan, value]; r2_score is NaN for fewer than two test samples.          *)
(***************************************************************************)
ModelKinds == {"rf", "lgbm", "dt", "svm"}

\* lines 191-192
DefaultModels == <<"rf", "lgbm", "dt">>

NaN == [nan |-> TRUE, value |-> 0]

Score(x) == [nan |-> FALSE, value |-> x]

\* a > b on floats: false when either is NaN
Greater(a, b) == ~a.nan /\ ~b.nan /\ a.value > b.value

\* train_test_split, test_size in tenths: n_test = ceil(test_size * n)
TestCount(n, test_size) == (test_size * n + 9) \div 10

\* results[model_name] = ...: a new key goes last, an old key keeps its place
PutResult(results, model_name, r2) ==
    IF \E i \in 1..Len(results) : results[i].model = model_name
    THEN [i \in 1..Len(results) |->
             IF results[i].model = model_name
             THEN [model |-> model_name, r2 |-> r2] ELSE results[i]]
    ELSE Append(results, [model |-> model_name, r2 |-> r2])

\* d[key] = ... on the keys of a dict, in insertion order
PutKey(keys, key) == IF key \in Range(keys) THEN keys ELSE Append(keys, key)

\* lines 277-283 without the entry in all_predictions
Stored_without_predictions(acc, model_name, r2) ==
    [results |-> PutResult(acc.results, model_name, r2),
     trained_models |-> PutKey(acc.trained_models, model_name),
     all_predictions |-> acc.all_predictions,
     attempted |-> Append(acc.attempted, model_name)]

\* lines 277-283: the scored model is entered in results, trained_models and
\* all_predictions
Stored(acc, model_name, r2) ==
    [results |-> PutResult(acc.results, model_name, r2),
     trained_models |-> PutKey(acc.trained_models, model_name),
     all_predictions |-> PutKey(acc.all_predictions, model_name),
     attempted |-> Append(acc.attempted, model_name)]

\* lines 216-289 where an exception in one model ends the loop
RECURSIVE RunModels_abort(_, _, _, _)
RunModels_abort(models, lightgbm, outcome, acc) ==
    IF models = <<>> THEN acc
    ELSE LET model_name == Head(models)
         IN  IF model_name \notin ModelKinds
                \/ (model_name = "lgbm" /\ ~lightgbm)
             THEN RunModels_abort(Tail(models), lightgbm, outcome, acc)
             ELSE IF outcome[model_name].raises
             THEN [acc EXCEPT !.attempted = Append(@, model_name)]
             ELSE RunModels_abort(Tail(models), lightgbm, outcome,
                      Stored(acc, model_name, outcome[model_name].r2))

\* lines 216-289: every model of the list in turn; an unknown name and an
\* unavailable LightGBM are skipped, an exception is caught and the model left
\* out of the results
RECURSIVE RunModels(_, _, _, _)
RunModels(models, lightgbm, outcome, acc) ==
    IF models = <<>> THEN acc
    ELSE LET model_name == Head(models)
         IN  IF model_name \notin ModelKinds
                \/ (model_name = "lgbm" /\ ~lightgbm)
             THEN RunModels(Tail(models), lightgbm, outcome, acc)
             ELSE IF outcome[model_name].raises
             THEN RunModels(Tail(models), lightgbm, outcome,
                      [acc EXCEPT !.attempted = Append(@, model_name)])
             ELSE RunModels(Tail(models), lightgbm, outcome,
                      Stored(acc, model_name, outcome[model_name].r2))

\* max(results.keys(), key=...) where a later key of equal score wins
RECURSIVE MaxByScore_last(_, _)
MaxByScore_last(results, best) ==
    IF results = <<>> THEN best
    ELSE IF ~Greater(best.r2, Head(results).r2)
         THEN MaxByScore_last(Tail(results), Head(results))
         ELSE MaxByScore_last(Tail(results), best)

\* line 293: max(results.keys(), key=...) keeps the first key, in insertion
\* order, that no later key exceeds
RECURSIVE MaxByScore(_, _)
MaxByScore(results, best) ==
    IF results = <<>> THEN best
    ELSE IF Greater(Head(results).r2, best.r2)
         THEN MaxByScore(Tail(results), Head(results))
         ELSE MaxByScore(Tail(results), best)

\* lines 292-310: best_model and feature_importance of the report
Selection(results, feature_cols) ==
    IF results = <<>>
    THEN [best_model |-> "None",
          feature_importance |-> [importance |-> "none", feature |-> <<>>]]
    ELSE LET best_model_name == MaxByScore(Tail(results), Head(results)).model
         IN  [best_model |-> best_model_name,
              feature_importance |->
                  IF best_model_name = "svm"
                  THEN [importance |-> "zeros", feature |-> feature_cols]
                  ELSE [importance |-> "feature_importances_",
                        feature |-> feature_cols]]

\* lines 190-320 on the feature frame df: [result, models, attempted,
\* feature_cols].  A missing total_citations column raises KeyError and an
\* empty train set makes train_test_split raise ValueError; both happen
\* before the model loop and are not caught.
predict_citations(df, test_size, models_given, models_arg, lightgbm, outcome) ==
    LET models == IF models_given THEN models_arg ELSE DefaultModels
        feature_cols == ModelFeatureCols(df)
        n == Len(df.rows)
        n_test == TestCount(n, test_size)
        base == [result |-> Raised("ValueError"), models |-> models,
                 attempted |-> <<>>, feature_cols |-> feature_cols]
    IN  IF "total_citations" \notin Range(df.columns)
        THEN [base EXCEPT !.result = Raised("KeyError")]
        ELSE IF n - n_test <= 0 THEN base
        ELSE LET run == RunModels(models, lightgbm, outcome,
                                  [results |-> <<>>, trained_models |-> <<>>,
                                   all_predictions |-> <<>>, attempted |-> <<>>])
                 selection == Selection(run.results, feature_cols)
             IN  [base EXCEPT
                     !.attempted = run.attempted,
                     !.result = Ok([results |-> run.results,
                                    best_model |-> selection.best_model,
                                    models |-> run.trained_models,
                                    predictions |-> run.all_predictions,
                                    feature_importance |-> selection.feature_importance,
                                    actual |-> n_test,
                                    feature_names |-> feature_cols])]

(***************************************************************************)
(* Inputs                                                                  *)
(***************************************************************************)
RawNames == {<<"A">>, <<"B">>, <<"C">>}

\* the author lists of at most p publications with at most rows authors in all
RECURSIVE AuthorListSeqs(_, _)
AuthorListSeqs(p, rows) ==
    IF p = 0 THEN {<<>>}
    ELSE {<<>>} \cup
         UNION {{<<al>> \o rest : rest \in AuthorListSeqs(p - 1, rows - Len(al))}
                : al \in SeqsUpTo(RawNames, Min(MaxAuthors, rows))}

MakePublications(als) == [i \in 1..Len(als) |-> [title |-> i, authors |-> als[i]]]

NoCall == [op |-> "none", algorithm |-> "none", importable |-> TRUE, eig_converges |-> TRUE]

NoMLCall == [op |-> "none", feature_cols |-> <<>>, n_clusters |-> 0,
             method |-> "none", diagnostic |-> FALSE, test_size |-> 0,
             models_given |-> FALSE, models |-> <<>>, attempted |-> <<>>,
             failed |-> {}]

\* _calculate_h_index_approx has not been called
ProcessorIdle ==
    /\ citations = <<>>
    /\ h_index = -1

NoRequest == [state |-> "idle", value |-> "None", exc |-> "none"]

\* no _api_request call has been made
CollectorIdle ==
    /\ max_retries = 0
    /\ attempt = 0
    /\ responses = <<>>
    /\ wait_time = 0
    /\ api_request = NoRequest

OthersIdle == ProcessorIdle /\ CollectorIdle

\* no MLAnalyzer is in use
MLIdle ==
    /\ author_stats_df = Frame(<<>>, <<>>)
    /\ network_metrics_df = Frame(<<>>, <<>>)
    /\ feature_df = NoFrame
    /\ LIGHTGBM_AVAILABLE = TRUE
    /\ cluster_calls = 0
    /\ ml_call = NoMLCall
    /\ ml_result = Ok(<<>>)

InitWith(pubs, shape) ==
    /\ MLIdle
    /\ OthersIdle
    /\ publications_df = pubs
    /\ authors_df = AuthorsTable(pubs, shape)
    /\ coauthorship_graph = EmptyGraph
    /\ build_calls = 0
    /\ last_call = NoCall
    /\ result = Ok(<<>>)

\* CitationNetworkAnalyzer(df_cleaned, df_authors) as main constructs it: any
\* publications, the author table extracted from them and normalized
Init ==
    \E als \in AuthorListSeqs(MaxPubs, MaxAuthorRows) :
        InitWith(MakePublications(als), "normalized")

\* one publication of two authors, the first name any string over NameChars,
\* with an author table of any of the three shapes
InitNames ==
    \E name \in SeqsUpTo(NameChars, MaxNameLen), shape \in AuthorColumnChoices :
        InitWith(MakePublications(<<<<name, <<"a">>>>>>), shape)

(***************************************************************************)
(* Operations                                                              *)
(***************************************************************************)
Build ==
    /\ build_calls < MaxConsecutiveBuilds
    /\ coauthorship_graph' = build_coauthorship_network(coauthorship_graph, publications_df)
    /\ result' = Ok(coauthorship_graph')
    /\ build_calls' = build_calls + 1
    /\ last_call' = [NoCall EXCEPT !.op = "build_coauthorship_network"]
    /\ UNCHANGED <<publications_df, authors_df, ml_vars, other_vars>>

CalculateNetworkMetrics ==
    \E eig_converges \in BOOLEAN :
        /\ coauthorship_graph' = EnsureBuilt(coauthorship_graph, publications_df)
        \* the power iteration only runs on a graph with nodes
        /\ Len(coauthorship_graph'.nodes) = 0 => eig_converges
        /\ result' = calculate_network_metrics(coauthorship_graph', authors_df, eig_converges)
        /\ build_calls' = 0
        /\ last_call' = [NoCall EXCEPT !.op = "calculate_network_metrics",
                                       !.eig_converges = eig_converges]
        /\ UNCHANGED <<publications_df, authors_df, ml_vars, other_vars>>

FindResearchCommunities ==
    \E g \in {EnsureBuilt(coauthorship_graph, publications_df)} :
    \E partitions \in {best_partition(g)}, fallback \in {girvan_newman_communities(g)} :
    \E algorithm \in Algorithms, importable \in BOOLEAN :
        \* the import is only attempted in the louvain branch
        /\ algorithm # "louvain" => importable
        /\ coauthorship_graph' = g
        /\ result' \in find_research_communities(g, algorithm, importable,
                                                 partitions, fallback)
        /\ build_calls' = 0
        /\ last_call' = [NoCall EXCEPT !.op = "find_research_communities",
                                       !.algorithm = algorithm,
                                       !.importable = importable]
        /\ UNCHANGED <<publications_df, authors_df, ml_vars, other_vars>>

Next == Build \/ CalculateNetworkMetrics \/ FindResearchCommunities

Spec == Init /\ [][Next]_vars

SpecNames == InitNames /\ [][Next]_vars

\* the analyzer on which build_coauthorship_network is never called by the
\* client
NextUnbuilt == CalculateNetworkMetrics \/ FindResearchCommunities

SpecUnbuilt == Init /\ [][NextUnbuilt]_vars

(***************************************************************************)
(* Impact analysis: inputs                                                 *)
(***************************************************************************)
\* the columns of calculate_author_stats and of the metrics rows
StatsColumns ==
    <<"author_name", "publication_count", "total_citations",
      "avg_citations_per_paper", "h_index_approx">>

MetricsColumns ==
    <<"author_name", "degree", "degree_centrality", "betweenness_centrality",
      "closeness_centrality", "eigenvector_centrality", "pagerank">>

StatsNames == {<<"a">>, <<"b">>, <<"d">>}

MetricsNames == {<<"a">>, <<"b">>, <<"c">>}

\* <<a column the frames lack, a column whose cell is NaN in each first row>>
MissingChoices ==
    {<<"none", "none">>, <<"h_index_approx", "none">>, <<"none", "pagerank">>,
     <<"pagerank", "h_index_approx">>}

\* a frame of the given columns without the column drop, one row per name,
\* every numeric cell of row i holding i, the cell nan of the first row NaN
MakeTable(columns, names, drop, nan) ==
    Frame(SelectSeq(columns, LAMBDA c : c # drop),
          [i \in 1..Len(names) |->
              [c \in (Range(columns) \ {drop}) \ (IF i = 1 THEN {nan} ELSE {}) |->
                  IF c = "author_name" THEN names[i] ELSE i]])

\* no CitationNetworkAnalyzer is in use
NetworkIdle ==
    /\ publications_df = <<>>
    /\ authors_df = AuthorsTable(<<>>, "normalized")
    /\ coauthorship_graph = EmptyGraph
    /\ build_calls = 0
    /\ last_call = NoCall
    /\ result = Ok(<<>>)

InitML(stats, metrics, lightgbm) ==
    /\ NetworkIdle
    /\ OthersIdle
    /\ author_stats_df = stats
    /\ network_metrics_df = metrics
    /\ feature_df = NoFrame
    /\ LIGHTGBM_AVAILABLE = lightgbm
    /\ cluster_calls = 0
    /\ ml_call = NoMLCall
    /\ ml_result = Ok(<<>>)

\* MLAnalyzer(author_stats, network_metrics) on any two frames of at most
\* MaxTableRows rows, duplicate authors included
InitFusion ==
    \E sn \in SeqsUpTo(StatsNames, MaxTableRows),
       mn \in SeqsUpTo(MetricsNames, MaxTableRows),
       missing \in MissingChoices :
        InitML(MakeTable(StatsColumns, sn, missing[1], missing[2]),
               MakeTable(MetricsColumns, mn, missing[1], missing[2]), TRUE)

AuthorPool == <<"a", "b", "c", "d", "e", "f">>

\* <<total_citations, pagerank>> of one author
Profiles == {<<0, 0>>, <<1, 0>>, <<2, 1>>}

\* the statistics of authors with the given profiles, one row each
StatsOf(ps) ==
    Frame(StatsColumns,
          [i \in 1..Len(ps) |->
              [author_name |-> <<AuthorPool[i]>>, publication_count |-> 1,
               total_citations |-> ps[i][1], avg_citations_per_paper |-> ps[i][1],
               h_index_approx |-> Min(ps[i][1], 1)]])

\* the network metrics of authors with the given profiles, one row each,
\* the first two authors of degree 1, the others of degree 0
MetricsOf(ps) ==
    Frame(MetricsColumns,
          [i \in 1..Len(ps) |->
              [author_name |-> <<AuthorPool[i]>>, degree |-> IF i <= 2 THEN 1 ELSE 0,
               degree_centrality |-> 0, betweenness_centrality |-> 0,
               closeness_centrality |-> 0, eigenvector_centrality |-> 0,
               pagerank |-> ps[i][2]]])

\* MLAnalyzer(author_stats, network_metrics) as main constructs it: the two
\* frames cover the same authors, at most MaxFused of them, one row each
InitAnalysis ==
    \E n \in 0..MaxFused :
        \E ps \in [1..n -> Profiles] : InitML(StatsOf(ps), MetricsOf(ps), TRUE)

\* the profile of the i-th author of a population used for prediction
ProfileOf(i) == <<i % 3, i % 2>>

\* as InitAnalysis, with one population of each size and LightGBM installed
\* or not
InitPredict ==
    \E n \in 0..MaxFused, lightgbm \in BOOLEAN :
        InitML(StatsOf([i \in 1..n |-> ProfileOf(i)]),
               MetricsOf([i \in 1..n |-> ProfileOf(i)]), lightgbm)

(***************************************************************************)
(* Impact analysis: operations                                             *)
(***************************************************************************)
CreateFeatures ==
    /\ feature_df' = create_features(author_stats_df, network_metrics_df)
    /\ ml_result' = Ok(feature_df')
    /\ ml_call' = [NoMLCall EXCEPT !.op = "create_features"]
    /\ UNCHANGED <<author_stats_df, network_metrics_df, LIGHTGBM_AVAILABLE,
                   cluster_calls, network_vars, other_vars>>

CalculateImpactScore ==
    \E df \in {EnsureFeatures(feature_df, author_stats_df, network_metrics_df)} :
    \E out \in {calculate_impact_score(df)} :
        /\ feature_df' = out.frame
        /\ ml_result' = out.result
        /\ ml_call' = [NoMLCall EXCEPT !.op = "calculate_impact_score",
                                       !.feature_cols = ImpactFeatureCols(df)]
        /\ UNCHANGED <<author_stats_df, network_metrics_df, LIGHTGBM_AVAILABLE,
                       cluster_calls, network_vars, other_vars>>

\* <<n_clusters, method>> of a call: a count that the larger populations
\* reach and the smaller do not
ClusterRequests == {<<3, "kmeans">>, <<2, "dbscan">>, <<3, "other">>}

ClusterAuthors ==
    /\ cluster_calls < MaxClusterCalls
    /\ \E request \in ClusterRequests :
       \E df \in {EnsureFeatures(feature_df, author_stats_df, network_metrics_df)} :
       \E out \in {cluster_authors(df, request[1], request[2])} :
           /\ feature_df' = out.frame
           /\ ml_result' = out.result
           /\ ml_call' = [NoMLCall EXCEPT !.op = "cluster_authors",
                                          !.feature_cols = out.feature_cols,
                                          !.n_clusters = request[1],
                                          !.method = request[2],
                                          !.diagnostic = out.diagnostic]
    /\ cluster_calls' = cluster_calls + 1
    /\ UNCHANGED <<author_stats_df, network_metrics_df, LIGHTGBM_AVAILABLE,
                   network_vars, other_vars>>

NextML == CreateFeatures \/ CalculateImpactScore \/ ClusterAuthors

\* test_size in tenths; 0.2 is the default
TestSizes == {2, 5}

\* <<whether a model list is given, the list>>
ModelRequests ==
    {<<FALSE, <<>>>>, <<TRUE, <<"xx", "svm", "rf">>>>}

\* the levels of R^2 that are told apart
R2Values == {0, 1}

\* what fitting and scoring one model can give
Outcomes(n_test) ==
    {[raises |-> TRUE, r2 |-> NaN]}
    \cup {[raises |-> FALSE, r2 |-> r2] :
             r2 \in IF n_test < 2 THEN {NaN} ELSE {Score(x) : x \in R2Values}}

\* the model kinds of the list that are fitted
Fitted(models, lightgbm) ==
    (Range(models) \cap ModelKinds) \ (IF lightgbm THEN {} ELSE {"lgbm"})

PredictCitations ==
    \E test_size \in TestSizes, request \in ModelRequests :
    \E df \in {EnsureFeatures(feature_df, author_stats_df, network_metrics_df)} :
    \E outcome \in [Fitted(IF request[1] THEN request[2] ELSE DefaultModels,
                           LIGHTGBM_AVAILABLE)
                    -> Outcomes(TestCount(Len(df.rows), test_size))] :
    \E out \in {predict_citations(df, test_size, request[1], request[2],
                                  LIGHTGBM_AVAILABLE, outcome)} :
        /\ feature_df' = df
        /\ ml_result' = out.result
        /\ ml_call' = [NoMLCall EXCEPT !.op = "predict_citations",
                                       !.feature_cols = out.feature_cols,
                                       !.test_size = test_size,
                                       !.models_given = request[1],
                                       !.models = out.models,
                                       !.attempted = out.attempted,
                                       !.failed = {m \in Range(out.attempted) :
                                                      outcome[m].raises}]
        /\ UNCHANGED <<author_stats_df, network_metrics_df, LIGHTGBM_AVAILABLE,
                       cluster_calls, network_vars, other_vars>>

NextPredict == NextML \/ PredictCitations

SpecPredict == InitPredict /\ [][NextPredict]_vars

SpecML == InitAnalysis /\ [][NextML]_vars

SpecFusion == InitFusion /\ [][CreateFeatures]_vars

(***************************************************************************)
(* DataProcessor._calculate_h_index_approx (src/src/data_processor.py)     *)
(***************************************************************************)
\* the list with x put before the first element that is smaller
RECURSIVE InsertDescending(_, _)
InsertDescending(xs, x) ==
    IF xs = <<>> THEN <<x>>
    ELSE IF x > Head(xs) THEN <<x>> \o xs
    ELSE <<Head(xs)>> \o InsertDescending(Tail(xs), x)

\* line 253: sorted(citations, reverse=True)
RECURSIVE sorted_reverse(_)
sorted_reverse(xs) ==
    IF xs = <<>> THEN <<>>
    ELSE InsertDescending(sorted_reverse(SubSeq(xs, 1, Len(xs) - 1)), xs[Len(xs)])

\* lines 257-261 where the publication at place i must have more than i
\* citations
RECURSIVE HIndexLoop_strict(_, _, _)
HIndexLoop_strict(sorted_citations, i, h) ==
    IF i > Len(sorted_citations) THEN h
    ELSE IF sorted_citations[i] > i
         THEN HIndexLoop_strict(sorted_citations, i + 1, i)
         ELSE h

\* lines 257-261: the loop over the sorted counts, i being enumerate's i + 1,
\* left at the first count below its place
RECURSIVE HIndexLoop(_, _, _)
HIndexLoop(sorted_citations, i, h) ==
    IF i > Len(sorted_citations) THEN h
    ELSE IF sorted_citations[i] >= i
         THEN HIndexLoop(sorted_citations, i + 1, i)
         ELSE h

\* lines 249-264
calculate_h_index_approx(cits) ==
    IF Len(cits) = 0 THEN 0
    ELSE HIndexLoop(sorted_reverse(cits), 1, 0)

\* any list of at most MaxPapers citation counts from 0 to MaxCitations
InitHIndex ==
    /\ NetworkIdle
    /\ MLIdle
    /\ CollectorIdle
    /\ citations \in SeqsUpTo(0..MaxCitations, MaxPapers)
    /\ h_index = -1

CalculateHIndex ==
    /\ h_index' = calculate_h_index_approx(citations)
    /\ UNCHANGED <<citations, collector_vars, network_vars, ml_vars>>

SpecHIndex == InitHIndex /\ [][CalculateHIndex]_vars

(***************************************************************************)
(* ScholarDataCollector._api_request (src/src/data_collector.py)           *)
(*                                                                         *)
(* One attempt of the loop is one step.  What requests.get gives is the    *)
(* server's and the network's business: a response with JSON, a 429 with   *)
(* or without a Retry-After header, a timeout, or another request error    *)
(* (raise_for_status included).  A header value is a string of characters. *)
(***************************************************************************)
HeaderChars == {"-", "0", "3", "x"}

Digits == {"0", "3"}

DigitValue(c) == IF c = "3" THEN 3 ELSE 0

\* the number a string of digits denotes
RECURSIVE DigitsValue(_)
DigitsValue(s) ==
    IF s = <<>> THEN 0
    ELSE 10 * DigitsValue(SubSeq(s, 1, Len(s) - 1)) + DigitValue(s[Len(s)])

IsNumber(s) == s # <<>> /\ \A i \in 1..Len(s) : s[i] \in Digits

\* int(text): [ok, value]; a string that is no signed decimal number raises
\* ValueError
int(text) ==
    IF IsNumber(text) THEN [ok |-> TRUE, value |-> DigitsValue(text)]
    ELSE IF text # <<>> /\ text[1] = "-" /\ IsNumber(Tail(text))
    THEN [ok |-> TRUE, value |-> 0 - DigitsValue(Tail(text))]
    ELSE [ok |-> FALSE, value |-> 0]

NoHeader == [present |-> FALSE, text |-> <<>>]

\* line 83: int(response.headers.get('Retry-After', 60))
RetryAfter(header) ==
    IF header.present THEN int(header.text) ELSE [ok |-> TRUE, value |-> 60]

\* a Retry-After header: absent, or any string of at most MaxHeaderLen
\* characters
Headers ==
    {NoHeader} \cup {[present |-> TRUE, text |-> t] :
                        t \in SeqsUpTo(HeaderChars, MaxHeaderLen)}

\* what one requests.get of the loop can give
Responses ==
    {[kind |-> "json", header |-> NoHeader],
     [kind |-> "timeout", header |-> NoHeader],
     [kind |-> "request_error", header |-> NoHeader]}
    \cup {[kind |-> "429", header |-> h] : h \in Headers}

Returned(v) == [state |-> "returned", value |-> v, exc |-> "none"]

Propagated(e) == [state |-> "raised", value |-> "None", exc |-> e]

Running == [state |-> "running", value |-> "None", exc |-> "none"]

\* lines 88-89, 101-102, 111-112: time.sleep(wait_time); continue.  A
\* negative sleep length raises ValueError.
SleepAndContinue(w) == IF w < 0 THEN Propagated("ValueError") ELSE Running

\* lines 78-115 for the attempt numbered a of m on response r: how the call
\* stands after it, and the wait computed (the last one if none is)
AttemptOutcome(r, a, m, last_wait) ==
    IF r.kind = "json"
    THEN [request |-> Returned("json"), wait |-> last_wait]
    ELSE IF r.kind = "429"
    THEN LET retry_after == RetryAfter(r.header)
             w == Min(retry_after.value, 120)
         IN  IF ~retry_after.ok
             THEN [request |-> Propagated("ValueError"), wait |-> last_wait]
             ELSE IF a < m - 1
             THEN [request |-> SleepAndContinue(w), wait |-> w]
             ELSE [request |-> Returned("None"), wait |-> w]
    ELSE IF a < m - 1
    THEN [request |-> Running,
          wait |-> IF r.kind = "timeout" THEN (a + 1) * 5 ELSE (a + 1) * 2]
    ELSE [request |-> Returned("None"), wait |-> last_wait]

\* a collector on which _api_request has not been called
InitCollector ==
    /\ NetworkIdle
    /\ MLIdle
    /\ ProcessorIdle
    /\ CollectorIdle

\* the call _api_request(endpoint, params, max_retries) up to its loop; with
\* nothing to iterate over the call returns None at once (line 117)
ApiRequest ==
    /\ api_request.state # "running"
    /\ \E m \in 0..MaxRetries :
           /\ max_retries' = m
           /\ api_request' = IF m = 0 THEN Returned("None") ELSE Running
    /\ attempt' = 0
    /\ responses' = <<>>
    /\ wait_time' = 0
    /\ UNCHANGED <<processor_vars, network_vars, ml_vars>>

\* one iteration of the loop of lines 77-115; the last one returns
Attempt ==
    /\ api_request.state = "running"
    /\ \E r \in Responses :
       \E a \in {Len(responses)} :
       \E out \in {AttemptOutcome(r, a, max_retries, wait_time)} :
           /\ attempt' = a
           /\ responses' = Append(responses, r.kind)
           /\ wait_time' = out.wait
           /\ api_request' = out.request
    /\ UNCHANGED <<max_retries, processor_vars, network_vars, ml_vars>>

NextCollector == ApiRequest \/ Attempt

SpecCollector == InitCollector /\ [][NextCollector]_vars

(***************************************************************************)
(* Properties                                                              *)
(***************************************************************************)
Called(op) == last_call.op = op

Binomial2(k) == (k * (k - 1)) \div 2

DistinctAuthors(pub) == Range(NormalizedAuthors(pub.authors))

\* the graph the loop of build_coauthorship_network holds before row i
GraphBeforeRow(i) == ProcessPublications(EmptyGraph, SubSeq(publications_df, 1, i - 1))

\* C1: in build_coauthorship_network a publication whose author list
\* normalizes to k >= 2 distinct authors causes exactly C(k,2) edge updates,
\* one per unordered pair of distinct authors, and a publication with fewer
\* than 2 authors leaves the node set and the edge set unchanged.
C1_EdgeUpdatesPerPublication ==
    Called("build_coauthorship_network") =>
        \A i \in 1..Len(publications_df) :
            LET pub == publications_df[i]
                k == Cardinality(DistinctAuthors(pub))
                ups == EdgeUpdates(pub.authors)
            IN  /\ k >= 2 =>
                    /\ Len(ups) = Binomial2(k)
                    /\ {{ups[u][1], ups[u][2]} : u \in 1..Len(ups)}
                         = {pr \in SUBSET DistinctAuthors(pub) : Cardinality(pr) = 2}
                /\ Len(pub.authors) < 2 =>
                    ProcessPublication(GraphBeforeRow(i), pub) = GraphBeforeRow(i)

PublicationsWithBoth(e) ==
    {i \in 1..Len(publications_df) : e \subseteq DistinctAuthors(publications_df[i])}

\* scenario 1 of the specification: P1{A,B}, P2{A,B,C}, P3{C}
Scenario1 ==
    MakePublications(<< <<<<"A">>, <<"B">>>>, <<<<"A">>, <<"B">>, <<"C">>>>, << <<"C">> >> >>)

Scenario1Holds ==
    LET g == build_coauthorship_network(EmptyGraph, Scenario1)
    IN  /\ NodeSet(g) = {<<"a">>, <<"b">>, <<"c">>}
        /\ DOMAIN g.edges = {{<<"a">>, <<"b">>}, {<<"a">>, <<"c">>}, {<<"b">>, <<"c">>}}
        /\ g.edges[{<<"a">>, <<"b">>}].weight = 2
        /\ g.edges[{<<"a">>, <<"c">>}].weight = 1
        /\ g.edges[{<<"b">>, <<"c">>}].weight = 1

\* C2: after build_coauthorship_network the weight of every edge {a,b} is
\* the number of publications whose author list contains both a and b (so it
\* is at least 1), and scenario 1 yields A-B 2, A-C 1, B-C 1 on nodes {A,B,C}.
C2_WeightCountsSharedPublications ==
    Called("build_coauthorship_network") =>
        /\ \A e \in DOMAIN coauthorship_graph.edges :
              /\ coauthorship_graph.edges[e].weight = Cardinality(PublicationsWithBoth(e))
              /\ coauthorship_graph.edges[e].weight >= 1
        /\ Scenario1Holds

\* C3: the co-authorship graph never contains a self-loop, also when an
\* author occurs more than once in an author list.
C3_NoSelfLoops ==
    \A e \in DOMAIN coauthorship_graph.edges : Cardinality(e) = 2

\* lower-cased, no leading or trailing whitespace, every whitespace run is
\* exactly one space
IsFullyNormalized(s) ==
    /\ \A i \in 1..Len(s) : s[i] = ToLower(s[i])
    /\ s # <<>> => s[1] \notin Whitespace /\ s[Len(s)] \notin Whitespace
    /\ \A i \in 1..Len(s) :
          s[i] \in Whitespace => s[i] = " " /\ (i < Len(s) => s[i + 1] \notin Whitespace)

\* C4: every node identity of the built graph is a fully normalized name:
\* lower-cased, without leading or trailing whitespace, every run of internal
\* whitespace collapsed to exactly one space.
C4_NodesFullyNormalized ==
    \A n \in NodeSet(coauthorship_graph) : IsFullyNormalized(n)

\* C5: build_coauthorship_network is idempotent: a call that directly follows
\* another call returns and stores the same graph (nodes, edges, weights and
\* per-edge publication lists); weights do not accumulate across rebuilds.
C5_RebuildIdempotent ==
    [][(build_calls >= 1 /\ build_calls' = build_calls + 1) =>
          /\ coauthorship_graph' = coauthorship_graph
          /\ result'.value = coauthorship_graph]_vars

C5_Witness ==
    /\ build_calls = 2
    /\ Called("build_coauthorship_network")
    /\ result.value = coauthorship_graph
    /\ \E e \in DOMAIN coauthorship_graph.edges :
          /\ coauthorship_graph.edges[e].weight = 2
          /\ Cardinality(Range(coauthorship_graph.edges[e].publications)) = 2

RowNames(rows) == [i \in 1..Len(rows) |-> rows[i].author_name]

\* C6: calculate_network_metrics returns exactly one row per graph node and
\* no row for an author who is not a node, however many rows the authors
\* table holds for the same author.
C6_OneRowPerNode ==
    (Called("calculate_network_metrics") /\ result.status = "ok") =>
        LET names == RowNames(result.value)
        IN  /\ Len(names) = Len(coauthorship_graph.nodes)
            /\ Range(names) = NodeSet(coauthorship_graph)

C6_Witness ==
    /\ Called("calculate_network_metrics")
    /\ result.status = "ok"
    /\ Len(result.value) >= 2
    /\ \E i, j \in 1..Len(authors_df.rows) :
          /\ authors_df.rows[i].publication_title # authors_df.rows[j].publication_title
          /\ authors_df.rows[i].author_normalized = authors_df.rows[j].author_normalized
          /\ authors_df.rows[i].author_normalized \in NodeSet(coauthorship_graph)

\* C7: when eigenvector centrality fails to converge within its iteration
\* cap, calculate_network_metrics does not abort: it still returns the table
\* with one row of metrics for every node.
C7_ConvergenceFailureIsolated ==
    (Called("calculate_network_metrics") /\ ~last_call.eig_converges) =>
        /\ result.status = "ok"
        /\ Range(RowNames(result.value)) = NodeSet(coauthorship_graph)

\* C8: when the publications yield no co-authorship edge (empty graph), the
\* downstream operations of the analyzer - calculate_network_metrics and
\* find_research_communities - return an empty result instead of raising.
C8_EmptyGraphReturnsEmpty ==
    (/\ last_call.op \in {"calculate_network_metrics", "find_research_communities"}
     /\ DOMAIN coauthorship_graph.edges = {}) =>
        /\ result.status = "ok"
        /\ DOMAIN result.value = {}

RECURSIVE ConcatAll(_, _)
ConcatAll(d, ids) ==
    IF ids = {} THEN <<>>
    ELSE LET c == CHOOSE x \in ids : TRUE
         IN  d[c] \o ConcatAll(d, ids \ {c})

\* C9: for either algorithm the mapping returned by find_research_communities
\* is a total partition of the node set: the author lists are pairwise
\* disjoint, list no author twice, and their union is the node set.
C9_CommunitiesPartitionNodes ==
    (Called("find_research_communities") /\ result.status = "ok") =>
        LET d == result.value
            all == ConcatAll(d, DOMAIN d)
        IN  /\ Range(all) = NodeSet(coauthorship_graph)
            /\ Len(all) = Cardinality(Range(all))
            /\ \A c \in DOMAIN d : d[c] # <<>>

C9_Witness ==
    /\ Called("find_research_communities")
    /\ result.status = "ok"
    /\ result.strategy = "girvan_newman"
    /\ Len(coauthorship_graph.nodes) >= 3
    /\ Cardinality(DOMAIN result.value) >= 2
    /\ \E c \in DOMAIN result.value : Len(result.value[c]) >= 2

\* C10 as stated: the Girvan-Newman fallback runs exactly when it is
\* explicitly requested or when 'louvain' is requested and its library cannot
\* be imported, and the missing library never makes the call raise.
C10_FallbackExactlyWhenRequested ==
    Called("find_research_communities") =>
        /\ result.strategy = "girvan_newman" <=>
              \/ last_call.algorithm = "girvan_newman"
              \/ (last_call.algorithm = "louvain" /\ ~last_call.importable)
        /\ result.exc # "ImportError"

\* C10 as amended: the Girvan-Newman fallback runs exactly when the requested
\* algorithm is anything other than 'louvain' (the explicit 'girvan_newman'
\* or an unrecognised name) or when 'louvain' is requested and its library
\* cannot be imported; in the latter case the call ends as an explicit
\* 'girvan_newman' request on the same graph can end, and no ImportError
\* reaches the caller.
C10_FallbackUnlessLouvainRuns ==
    Called("find_research_communities") =>
        /\ result.strategy = "girvan_newman" <=>
              \/ last_call.algorithm # "louvain"
              \/ ~last_call.importable
        /\ result.strategy = "louvain" <=>
              (last_call.algorithm = "louvain" /\ last_call.importable)
        /\ result.exc # "ImportError"
        /\ (last_call.algorithm = "louvain" /\ ~last_call.importable) =>
              \E o \in girvan_newman_communities(coauthorship_graph) :
                  IF o.exc = "none"
                  THEN /\ result.status = "ok"
                       /\ result.value = CommunityDict(coauthorship_graph.nodes, o.communities)
                  ELSE /\ result.status = "raised"
                       /\ result.exc = o.exc

C10_Witness ==
    /\ Called("find_research_communities")
    /\ last_call.algorithm = "louvain"
    /\ ~last_call.importable
    /\ result.status = "ok"
    /\ result.strategy = "girvan_newman"
    /\ Cardinality(DOMAIN result.value) >= 2

MLCalled(op) == ml_call.op = op

AuthorNames(df) == [i \in 1..Len(df.rows) |-> df.rows[i].author_name]

\* C11: create_features returns exactly one row per author that both the
\* author statistics and the network metrics have, and no other row, also
\* when either input holds several rows for an author.
C11_FusionIsIntersection ==
    MLCalled("create_features") =>
        LET names == AuthorNames(ml_result.value)
        IN  /\ Range(names) = Range(AuthorNames(author_stats_df))
                              \cap Range(AuthorNames(network_metrics_df))
            /\ Cardinality(Range(names)) = Len(names)

\* a fusion of frames that each have an author of their own, one of them
\* with a repeated author, and that share an author
C11_Witness ==
    LET sn == AuthorNames(author_stats_df)
        mn == AuthorNames(network_metrics_df)
    IN  /\ MLCalled("create_features")
        /\ Range(sn) \ Range(mn) # {}
        /\ Range(mn) \ Range(sn) # {}
        /\ Cardinality(Range(sn)) < Len(sn)
        /\ Len(ml_result.value.rows) >= 1

\* the feature columns that neither input frame has
AbsentColumns ==
    {c \in Range(feature_columns) :
        c \notin Range(author_stats_df.columns) \cup Range(network_metrics_df.columns)}

\* C12: every row create_features returns has all ten numeric fields, each
\* with a numeric value, and a field of a column missing from the inputs is 0.
C12_FullyMaterialized ==
    MLCalled("create_features") =>
        \A i \in 1..Len(ml_result.value.rows) :
            LET row == ml_result.value.rows[i]
            IN  \A c \in Range(feature_columns) :
                    /\ c \in DOMAIN row
                    /\ row[c] \in Int
                    /\ c \in AbsentColumns => row[c] = 0

ScoredOk == MLCalled("calculate_impact_score") /\ ml_result.status = "ok"

ImpactScores == Column(feature_df, "impact_score")

\* C13: for a non-empty fused population every impact_score written by
\* calculate_impact_score lies in the closed interval [0, 100] (scores are
\* in hundredths).
C13_ImpactScoreInRange ==
    ScoredOk =>
        /\ Len(feature_df.rows) >= 1
        /\ \A i \in 1..Len(feature_df.rows) :
               /\ ImpactScores[i] >= 0
               /\ ImpactScores[i] <= 100 * 100
               /\ \E j \in 1..Len(ml_result.value.rows) :
                      /\ ml_result.value.rows[j].author_name = feature_df.rows[i].author_name
                      /\ ml_result.value.rows[j].impact_score = ImpactScores[i]

\* a scored population with the lowest, the highest and a score in between
C13_Witness ==
    /\ ScoredOk
    /\ 0 \in Range(ImpactScores)
    /\ 100 * 100 \in Range(ImpactScores)
    /\ \E x \in Range(ImpactScores) : 0 < x /\ x < 100 * 100

\* the cells of a row in the ten feature columns
FeatureVector(row) == Project(row, feature_columns)

\* C14: whenever all raw weighted scores are equal, in particular when all
\* authors have the same feature vector or there is one author only,
\* calculate_impact_score returns normally and gives every author score 0.
C14_EqualScoresGiveZero ==
    MLCalled("calculate_impact_score") =>
        LET n == Len(feature_df.rows)
            raw == RawScores(feature_df, ml_call.feature_cols)
            identical == \A i, j \in 1..n :
                             FeatureVector(feature_df.rows[i]) = FeatureVector(feature_df.rows[j])
        IN  /\ (n >= 1 /\ identical) => \A i, j \in 1..n : raw[i] = raw[j]
            /\ (n >= 1 /\ \A i, j \in 1..n : raw[i] = raw[j]) =>
                   /\ ml_result.status = "ok"
                   /\ \A i \in 1..n : ImpactScores[i] = 0

\* two or more authors with the same non-zero feature vector, scored
C14_Witness ==
    /\ ScoredOk
    /\ Len(feature_df.rows) >= 2
    /\ \A i, j \in 1..Len(feature_df.rows) :
           FeatureVector(feature_df.rows[i]) = FeatureVector(feature_df.rows[j])
    /\ feature_df.rows[1].total_citations > 0
    /\ \A i \in 1..Len(feature_df.rows) : ImpactScores[i] = 0

\* the standardized column col of feature_df, zeros when there is no such column
Standardized(col) ==
    IF col \in Range(feature_df.columns)
    THEN StandardizeColumn(Column(feature_df, col))
    ELSE [i \in 1..Len(feature_df.rows) |-> 0]

\* C15: the raw impact score is the sum over exactly eight features of weight
\* times standardized value, with weights total_citations 0.25, h_index_approx
\* 0.20, pagerank 0.15, publication_count 0.10, betweenness_centrality 0.10,
\* eigenvector_centrality 0.10, degree_centrality 0.05, closeness_centrality
\* 0.05 (sum 1.0); no other column of the feature table contributes.
C15_EightWeightedFeatures ==
    ScoredOk =>
        LET n == Len(feature_df.rows)
            total_citations == Standardized("total_citations")
            h_index_approx == Standardized("h_index_approx")
            pagerank == Standardized("pagerank")
            publication_count == Standardized("publication_count")
            betweenness_centrality == Standardized("betweenness_centrality")
            eigenvector_centrality == Standardized("eigenvector_centrality")
            degree_centrality == Standardized("degree_centrality")
            closeness_centrality == Standardized("closeness_centrality")
            raw == [i \in 1..n |->
                         25 * total_citations[i]
                       + 20 * h_index_approx[i]
                       + 15 * pagerank[i]
                       + 10 * publication_count[i]
                       + 10 * betweenness_centrality[i]
                       + 10 * eigenvector_centrality[i]
                       +  5 * degree_centrality[i]
                       +  5 * closeness_centrality[i]]
        IN  /\ 25 + 20 + 15 + 10 + 10 + 10 + 5 + 5 = 100
            /\ raw = RawScores(feature_df, ml_call.feature_cols)
            /\ ImpactScores = MinMaxScale(raw)

\* a scored population in which two authors differ in degree only and so
\* have the same score, while a third author has another score
C15_Witness ==
    /\ ScoredOk
    /\ \E i, j, k \in 1..Len(feature_df.rows) :
           /\ feature_df.rows[i].degree # feature_df.rows[j].degree
           /\ \A c \in DOMAIN weights : feature_df.rows[i][c] = feature_df.rows[j][c]
           /\ ImpactScores[i] = ImpactScores[j]
           /\ ImpactScores[k] # ImpactScores[i]

\* the fused feature columns other than the target
FusedPredictors ==
    SelectSeq(create_features(author_stats_df, network_metrics_df).columns,
              LAMBDA col : col \notin {"author_name", "total_citations"})

\* C16: whatever calls of calculate_impact_score, cluster_authors and
\* predict_citations came before, the predictor columns of predict_citations
\* are exactly the fused feature columns other than total_citations: never
\* author_name, impact_score, cluster, pca_1 or pca_2.
C16_PredictorsAreFusedFeatures ==
    MLCalled("predict_citations") => ml_call.feature_cols = FusedPredictors

\* C17: cluster_authors always clusters on the fused features other than
\* the target and the score, so a repeated call uses the same input columns;
\* its own outputs cluster, pca_1 and pca_2 are never among its inputs.
C17_ClusterInputsAreFusedFeatures ==
    MLCalled("cluster_authors") =>
        /\ ml_call.feature_cols = FusedPredictors
        /\ Range(ml_call.feature_cols) \cap Range(DerivedColumns) = {}

\* C18: called without a model list, predict_citations runs all four
\* regressor kinds rf, lgbm, dt and svm.
C18_DefaultRunsFourKinds ==
    (MLCalled("predict_citations") /\ ~ml_call.models_given) =>
        {"rf", "lgbm", "dt", "svm"} \subseteq Range(ml_call.models)

\* the models of the list that reach fitting, in list order
Fittable ==
    SelectSeq(ml_call.models,
              LAMBDA m : m \in ModelKinds /\ (m = "lgbm" => LIGHTGBM_AVAILABLE))

\* the sequence without the later occurrences of its elements
RECURSIVE Distinct(_)
Distinct(xs) ==
    IF xs = <<>> THEN <<>>
    ELSE LET front == Distinct(SubSeq(xs, 1, Len(xs) - 1))
         IN  IF xs[Len(xs)] \in Range(front) THEN front ELSE Append(front, xs[Len(xs)])

ReportedModels == [i \in 1..Len(ml_result.value.results) |-> ml_result.value.results[i].model]

\* the model loop of predict_citations was entered
LoopEntered ==
    /\ MLCalled("predict_citations")
    /\ "total_citations" \in Range(feature_df.columns)
    /\ Len(feature_df.rows) - TestCount(Len(feature_df.rows), ml_call.test_size) >= 1

\* C19: in predict_citations a model that fails (an exception, LightGBM not
\* installed, an unknown name) is only left out of the report: every other
\* model of the list is still fitted and evaluated, in list order, and the
\* call returns.
C19_ModelFailureIsolated ==
    LoopEntered =>
        /\ ml_result.status = "ok"
        /\ ml_call.attempted = Fittable
        /\ ReportedModels = Distinct(SelectSeq(Fittable, LAMBDA m : m \notin ml_call.failed))

\* a call in which an unknown name was skipped, a model raised, and a model
\* after it in the list is in the report
C19_Witness ==
    /\ LoopEntered
    /\ \E i, j, k \in 1..Len(ml_call.models) :
           /\ ml_call.models[i] \notin ModelKinds
           /\ ml_call.models[j] \in ml_call.failed
           /\ j < k
           /\ ml_call.models[k] \in Range(ReportedModels)

\* the place of model m in the configured list
FirstIndex(m) == CHOOSE i \in 1..Len(ml_call.models) :
                     /\ ml_call.models[i] = m
                     /\ \A j \in 1..(i - 1) : ml_call.models[j] # m

\* C20: the best_model of the report has the maximum r2_score among the
\* models in the report, and of several with the maximum it is the one that
\* comes first in the configured list; without any model it is None.
C20_BestIsFirstMaximum ==
    (MLCalled("predict_citations") /\ ml_result.status = "ok") =>
        LET results == ml_result.value.results
        IN  IF results = <<>> THEN ml_result.value.best_model = "None"
            ELSE \E b \in 1..Len(results) :
                     /\ results[b].model = ml_result.value.best_model
                     /\ \A j \in 1..Len(results) :
                            /\ ~Greater(results[j].r2, results[b].r2)
                            /\ FirstIndex(results[j].model) < FirstIndex(results[b].model)
                                   => Greater(results[b].r2, results[j].r2)

\* a report in which two models share the maximum and a model before them
\* in the list has less
C20_Witness ==
    /\ MLCalled("predict_citations")
    /\ ml_result.status = "ok"
    /\ \E i, j, k \in 1..Len(ml_result.value.results) :
           LET results == ml_result.value.results
           IN  /\ i < j /\ j < k
               /\ Greater(results[j].r2, results[i].r2)
               /\ results[k].r2 = results[j].r2
               /\ ml_result.value.best_model = results[j].model

\* C21: when the best model of predict_citations is support-vector
\* regression, which exposes no importances, the feature-importance table of
\* the report has no entries.
C21_SvmReportsNoImportances ==
    (MLCalled("predict_citations") /\ ml_result.status = "ok"
         /\ ml_result.value.best_model = "svm") =>
        ml_result.value.feature_importance.feature = <<>>

\* the number of samples left for fitting by the split of the last call
TrainCount ==
    Len(feature_df.rows) - TestCount(Len(feature_df.rows), ml_call.test_size)

\* C22: when the split leaves fewer than two samples for fitting,
\* predict_citations raises a shape/size error to the caller: it returns no
\* report and the per-model handler does not swallow the error.
C22_TooFewSamplesRaise ==
    (MLCalled("predict_citations")
         /\ "total_citations" \in Range(feature_df.columns)
         /\ TrainCount < 2) =>
        /\ ml_result.status = "raised"
        /\ ml_result.exc = "ValueError"

C24_ProjectionAlwaysAttached ==
    (MLCalled("cluster_authors") /\ Len(feature_df.rows) >= 1) =>
        /\ ml_result.status = "ok"
        /\ \A i \in 1..Len(feature_df.rows) :
               /\ {"pca_1", "pca_2"} \subseteq DOMAIN feature_df.rows[i]
               /\ feature_df.rows[i].pca_1.n_clusters = 0
               /\ feature_df.rows[i].pca_2.n_clusters = 0
               /\ feature_df.rows[i].pca_1.row = i
               /\ feature_df.rows[i].pca_2.row = i

\* the graph an explicit build_coauthorship_network call gives
BuiltGraph == build_coauthorship_network(EmptyGraph, publications_df)

\* C25: calculate_network_metrics and find_research_communities called on
\* an analyzer whose graph was never built first build it from all the
\* publications, and return what they return on the explicitly built graph.
C25_ComputesOnBuiltGraph ==
    /\ Called("calculate_network_metrics") =>
           /\ coauthorship_graph = BuiltGraph
           /\ result = calculate_network_metrics(BuiltGraph, authors_df,
                                                 last_call.eig_converges)
    /\ Called("find_research_communities") =>
           /\ coauthorship_graph = BuiltGraph
           /\ result \in find_research_communities(BuiltGraph, last_call.algorithm,
                             last_call.importable, best_partition(BuiltGraph),
                             girvan_newman_communities(BuiltGraph))

\* metrics returned for a graph with an edge that only the call itself built
C25_Witness ==
    /\ Called("calculate_network_metrics")
    /\ result.status = "ok"
    /\ DOMAIN coauthorship_graph.edges # {}
    /\ Len(result.value) >= 2

\* the number of counts of the list that are at least h
AtLeast(cits, h) == Cardinality({i \in 1..Len(cits) : cits[i] >= h})

Reverse(xs) == [i \in 1..Len(xs) |-> xs[Len(xs) + 1 - i]]

\* C26: for a list of non-negative citation counts _calculate_h_index_approx
\* returns the largest h such that at least h counts are >= h, 0 for the
\* empty list, and the same for the list in another order.
C26_HIndexIsLargestH ==
    h_index # -1 =>
        /\ h_index \in 0..Len(citations)
        /\ AtLeast(citations, h_index) >= h_index
        /\ \A h \in (h_index + 1)..Len(citations) : AtLeast(citations, h) < h
        /\ calculate_h_index_approx(Reverse(citations)) = h_index
        /\ citations = <<>> => h_index = 0

\* an unsorted list whose h-index is neither 0 nor its length, with a count
\* equal to the h-index
C26_Witness ==
    /\ h_index = 2
    /\ Len(citations) = 4
    /\ citations[1] < citations[2]
    /\ \E i \in 1..4 : citations[i] = 2
    /\ \E i \in 1..4 : citations[i] = 0

\* C27: the node identity that build_coauthorship_network gives a raw author
\* name is the author_normalized identity of normalize_author_names, so
\* every author of a co-authored publication is a node under the identity
\* the author table knows.
C27_NodeIdentityIsAuthorNormalized ==
    (Called("build_coauthorship_network")
         /\ "author_normalized" \in authors_df.columns) =>
        \A i \in 1..Len(authors_df.rows) :
            /\ NormalizeNode(authors_df.rows[i].author_name)
                   = authors_df.rows[i].author_normalized
            /\ authors_df.rows[i].author_normalized \in NodeSet(coauthorship_graph)

\* the authors of a frame with their impact scores, in row order
AuthorScores(df) ==
    [i \in 1..Len(df.rows) |-> <<df.rows[i].author_name, df.rows[i].impact_score>>]

\* a row without its impact score
WithoutScore(row) == [c \in DOMAIN row \ {"impact_score"} |-> row[c]]

\* C28: the scores of calculate_impact_score are those computed from the
\* fused features alone, whatever calls of calculate_impact_score,
\* predict_citations and cluster_authors came before, and the call leaves the
\* rows of the stored feature table and their order as they were, the
\* impact_score column apart.
C28_ScoresDependOnFusedFeaturesOnly ==
    [][(ml_call'.op = "calculate_impact_score" /\ ml_result'.status = "ok") =>
          LET fresh == calculate_impact_score(
                           create_features(author_stats_df, network_metrics_df))
              before == EnsureFeatures(feature_df, author_stats_df, network_metrics_df)
          IN  /\ AuthorScores(ml_result'.value) = AuthorScores(fresh.result.value)
              /\ AuthorScores(feature_df') = AuthorScores(fresh.frame)
              /\ Len(feature_df'.rows) = Len(before.rows)
              /\ \A i \in 1..Len(before.rows) :
                     WithoutScore(feature_df'.rows[i]) = WithoutScore(before.rows[i])]_vars

\* scores computed on a table that cluster_authors has extended, returned in
\* an order that is not the stored one
C28_Witness ==
    /\ MLCalled("calculate_impact_score")
    /\ ml_result.status = "ok"
    /\ {"cluster", "pca_1", "pca_2"} \subseteq Range(feature_df.columns)
    /\ AuthorNames(ml_result.value) # AuthorNames(feature_df)
    /\ \E i \in 1..Len(feature_df.rows) : feature_df.rows[i].impact_score = 100 * Unit

\* the models of the last predict_citations call that were fitted and scored
Succeeded == Range(ml_call.attempted) \ ml_call.failed

\* C29: in a report of predict_citations results, models and predictions
\* have the same keys, the configured models that were fitted and scored;
\* best_model is one of them, and None exactly when there is none, in which
\* case the report has an empty feature-importance table.
C29_ReportKeysAgree ==
    (MLCalled("predict_citations") /\ ml_result.status = "ok") =>
        LET report == ml_result.value
        IN  /\ Range(ReportedModels) = Succeeded
            /\ Range(report.models) = Succeeded
            /\ Range(report.predictions) = Succeeded
            /\ Succeeded # {} => report.best_model \in Succeeded
            /\ Succeeded = {} <=> report.best_model = "None"
            /\ Succeeded = {} => report.feature_importance.feature = <<>>

\* every fitted model raised, and the call returned a report without a best
\* model
C29_Witness ==
    /\ LoopEntered
    /\ Cardinality(Range(ml_call.attempted)) >= 2
    /\ ml_call.failed = Range(ml_call.attempted)
    /\ ml_result.status = "ok"
    /\ ml_result.value.best_model = "None"
    /\ ml_result.value.models = <<>>

\* C30: _api_request makes at most max_retries HTTP attempts and never lets
\* an exception reach its caller, whatever 429 responses (with any
\* Retry-After header), timeouts and request errors it meets: it returns the
\* JSON of the first successful attempt, or None once the last attempt has
\* failed; no wait exceeds 120 seconds.
C30_RequestAlwaysReturns ==
    /\ Len(responses) <= max_retries
    /\ wait_time <= 120
    /\ api_request.state # "raised"
    /\ api_request.state = "returned" =>
           IF responses # <<>> /\ responses[Len(responses)] = "json"
           THEN /\ api_request.value = "json"
                /\ \A i \in 1..(Len(responses) - 1) : responses[i] # "json"
           ELSE /\ api_request.value = "None"
                /\ Len(responses) = max_retries

====
